---- MODULE Spec2Model ----
(***************************************************************************)
(* A model of the SpiderFoot plugin sfp_emergingthreats                    *)
(* (src/modules/sfp_emergingthreats.py): its option dictionary, its dedup  *)
(* ledger (self.results), its latching errorState, the list cache it uses  *)
(* through sf.cacheGet / sf.cachePut, the remote list it downloads through *)
(* sf.fetchUrl, and the line scan of query(); and of the plugin           *)
(* sfp_orangenetwork (src/modules/sfp_orangenetwork.py): its credentials,  *)
(* its ledger and its two requests.                                        *)
(*                                                                         *)
(* Spec is one sfp_emergingthreats instance called sequentially, SpecMatch *)
(* one call of its handler over the lists and queries of the line scan,    *)
(* SpecThreads its handler called from two threads, SpecInstances two      *)
(* instances of the class, SpecOrange one sfp_orangenetwork instance.      *)
(*                                                                         *)
(* Text is modelled as a sequence of one-character strings, so that        *)
(* split('\n'), strip(), lower() and the netaddr parsers are computed      *)
(* rather than assumed.                                                    *)
(***************************************************************************)
EXTENDS Integers, Sequences, FiniteSets, TLC

VARIABLES
    phase,       \* "constructed" before setup(), "ready" after it
    opts,        \* the option dictionary (lines 45-50, 69-70)
    results,     \* self.results: the data already seen (the dedup ledger)
    errorState,  \* self.errorState
    cache,       \* the cache entry "sfmal__emergingthreats": NoEntry or [body, storedAt]
    now,         \* the clock, in hours
    feed,        \* the remote list, as the lines the server holds
    last,        \* what the last handleEvent / query invocation did (NoCall before any)
    threads,     \* the invocations of handleEvent in progress, one per thread
    second,      \* a second instance of the class sfp_emergingthreats
    orange       \* the instance of sfp_orangenetwork

vars == <<phase, opts, results, errorState, cache, now, feed, last, threads, second, orange>>

----------------------------------------------------------------------------
(* Bounds of the model.                                                    *)

\* The clock runs from 0 to MaxTime hours.
MaxTime == 3
\* The remote lists of SpecMatch hold at most MaxLines lines.
MaxLines == 2

----------------------------------------------------------------------------
(* Text.                                                                   *)

None == "None"

\* The characters str.strip() removes that occur in the modelled text.
Whitespace == {" ", "\t", "\r", "\n"}

\* The value of each decimal digit, and of each hex digit in either case.
digitValue ==
    [c \in {"0", "1", "2", "3", "4", "5", "6", "7", "8", "9"} |->
        CASE c = "0" -> 0 [] c = "1" -> 1 [] c = "2" -> 2 [] c = "3" -> 3 [] c = "4" -> 4
          [] c = "5" -> 5 [] c = "6" -> 6 [] c = "7" -> 7 [] c = "8" -> 8 [] c = "9" -> 9]

upperToLower ==
    [c \in {"A", "B", "C", "D", "E", "F"} |->
        CASE c = "A" -> "a" [] c = "B" -> "b" [] c = "C" -> "c"
          [] c = "D" -> "d" [] c = "E" -> "e" [] c = "F" -> "f"]

hexLetterValue ==
    [c \in {"a", "b", "c", "d", "e", "f"} |->
        CASE c = "a" -> 10 [] c = "b" -> 11 [] c = "c" -> 12
          [] c = "d" -> 13 [] c = "e" -> 14 [] c = "f" -> 15]

\* str.lower() on one character.
lowerChar(c) == IF c \in DOMAIN upperToLower THEN upperToLower[c] ELSE c

\* str.lower()
lower(s) == [i \in 1..Len(s) |-> lowerChar(s[i])]

RECURSIVE lstrip(_)
lstrip(s) ==
    IF s # <<>> /\ Head(s) \in Whitespace THEN lstrip(Tail(s)) ELSE s

RECURSIVE rstrip(_)
rstrip(s) ==
    IF s # <<>> /\ s[Len(s)] \in Whitespace THEN rstrip(SubSeq(s, 1, Len(s) - 1)) ELSE s

\* str.strip()
strip(s) == rstrip(lstrip(s))

\* The pieces of s from position start on, i being the next character to look at.
RECURSIVE splitAt(_, _, _, _)
splitAt(s, sep, start, i) ==
    IF i > Len(s) THEN <<SubSeq(s, start, Len(s))>>
    ELSE IF s[i] = sep
    THEN <<SubSeq(s, start, i - 1)>> \o splitAt(s, sep, i + 1, i + 1)
    ELSE splitAt(s, sep, start, i + 1)

\* str.split(sep) for a one-character separator: "a\n" gives <<"a", "">>, "" gives <<"">>.
split(s, sep) == splitAt(s, sep, 1, 1)

\* The text of a resource whose lines are ls: the lines joined by "\n".
RECURSIVE joinLines(_)
joinLines(ls) ==
    IF ls = <<>> THEN <<>>
    ELSE IF Len(ls) = 1 THEN ls[1]
    ELSE ls[1] \o <<"\n">> \o joinLines(Tail(ls))

----------------------------------------------------------------------------
(* netaddr, as far as line 109 uses it.  An address is its version and its *)
(* octets; the modelled spellings are the dotted quad of IPv4 and the      *)
(* compressed IPv6 form "::h" of one to four hex digits.                   *)

ParseError == [ok |-> FALSE, version |-> 0, octets |-> <<>>, prefix |-> 0]

isDigits(s) == \A i \in 1..Len(s) : s[i] \in DOMAIN digitValue

RECURSIVE decimal(_)
decimal(s) ==
    IF s = <<>> THEN 0
    ELSE 10 * decimal(SubSeq(s, 1, Len(s) - 1)) + digitValue[s[Len(s)]]

hexDigit(c) ==
    LET l == lowerChar(c)
    IN  IF l \in DOMAIN digitValue THEN digitValue[l]
        ELSE IF l \in DOMAIN hexLetterValue THEN hexLetterValue[l]
        ELSE -1

isHex(s) == \A i \in 1..Len(s) : hexDigit(s[i]) >= 0

RECURSIVE hexValue(_)
hexValue(s) ==
    IF s = <<>> THEN 0
    ELSE 16 * hexValue(SubSeq(s, 1, Len(s) - 1)) + hexDigit(s[Len(s)])

width(version) == IF version = 4 THEN 32 ELSE 128

parseIPv4(s) ==
    LET parts == split(s, ".")
    IN  IF /\ Len(parts) = 4
           /\ \A i \in 1..4 : Len(parts[i]) \in 1..3 /\ isDigits(parts[i])
        THEN LET octets == [i \in 1..4 |-> decimal(parts[i])]
             IN  IF \A i \in 1..4 : octets[i] <= 255
                 THEN [ok |-> TRUE, version |-> 4, octets |-> octets, prefix |-> 32]
                 ELSE ParseError
        ELSE ParseError

parseIPv6(s) ==
    IF /\ Len(s) \in 3..6
       /\ s[1] = ":" /\ s[2] = ":"
       /\ isHex(SubSeq(s, 3, Len(s)))
    THEN LET v == hexValue(SubSeq(s, 3, Len(s)))
         IN  [ok |-> TRUE, version |-> 6,
              octets |-> [i \in 1..16 |-> IF i = 15 THEN v \div 256
                                          ELSE IF i = 16 THEN v % 256 ELSE 0],
              prefix |-> 128]
    ELSE ParseError

parseAddress(s) ==
    LET v4 == parseIPv4(s)
    IN  IF v4.ok THEN v4 ELSE parseIPv6(s)

\* IPAddress(addr) with its CIDR check relaxed: a line "a/p" is read as the address a.
IPAddressBase(s) == parseAddress(split(s, "/")[1])

\* IPAddress(addr): a string holding "/" raises ValueError (netaddr refuses prefixes
\* here), any other unparsable string raises AddrFormatError.
IPAddress(s) ==
    IF \E i \in 1..Len(s) : s[i] = "/" THEN ParseError ELSE parseAddress(s)

\* IPNetwork(addr): "a" is a/32 (a/128), "a/p" needs 0 <= p <= width.
IPNetwork(s) ==
    LET parts == split(s, "/")
    IN  IF Len(parts) = 1 THEN parseAddress(s)
        ELSE IF Len(parts) = 2
        THEN LET a == parseAddress(parts[1])
             IN  IF /\ a.ok
                    /\ Len(parts[2]) \in 1..3
                    /\ isDigits(parts[2])
                    /\ decimal(parts[2]) <= width(a.version)
                 THEN [a EXCEPT !.prefix = decimal(parts[2])]
                 ELSE ParseError
        ELSE ParseError

\* The number of leading bits of octet i that a prefix of length p covers.
maskedBits(p, i) ==
    IF p >= 8 * i THEN 8 ELSE IF p <= 8 * (i - 1) THEN 0 ELSE p - 8 * (i - 1)

\* `addr in net` (IPNetwork.__contains__): same version and same leading prefix bits.
contains(net, addr) ==
    /\ net.version = addr.version
    /\ \A i \in 1..Len(addr.octets) :
          LET k == maskedBits(net.prefix, i)
          IN  (addr.octets[i] \div (2 ^ (8 - k))) = (net.octets[i] \div (2 ^ (8 - k)))

----------------------------------------------------------------------------
(* The line scan of query(), lines 104-121.                                *)

url == "https://rules.emergingthreats.net/blockrules/compromised-ips.txt"

\* lineOutcome with line 105 losing its strip(): the line is only lower-cased.
lineOutcomeNoStrip(line, qry, targetType) ==
    LET ip == lower(line)
        addr == IPAddress(ip)
        net == IPNetwork(qry)
    IN  IF targetType = "netblock"
        THEN IF ~addr.ok \/ ~net.ok THEN "continue"
             ELSE IF contains(net, addr) THEN "match"
             ELSE "next"
        ELSE IF targetType = "ip"
        THEN IF lower(qry) = ip THEN "match" ELSE "next"
        ELSE "next"

\* lineOutcome with line 117 losing its lower(): the query is compared as written.
lineOutcomeCaseSensitive(line, qry, targetType) ==
    LET ip == lower(strip(line))
        addr == IPAddress(ip)
        net == IPNetwork(qry)
    IN  IF targetType = "netblock"
        THEN IF ~addr.ok \/ ~net.ok THEN "continue"
             ELSE IF contains(net, addr) THEN "match"
             ELSE "next"
        ELSE IF targetType = "ip"
        THEN IF qry = ip THEN "match" ELSE "next"
        ELSE "next"

\* One iteration of the loop on a line: "match" (return url), "continue" (the except
\* branch of lines 112-114) or "next" (the end of the body).
lineOutcome(line, qry, targetType) ==
    LET ip == lower(strip(line))
        addr == IPAddress(ip)
        net == IPNetwork(qry)
    IN  IF targetType = "netblock"
        THEN IF ~addr.ok \/ ~net.ok THEN "continue"
             ELSE IF contains(net, addr) THEN "match"
             ELSE "next"
        ELSE IF targetType = "ip"
        THEN IF lower(qry) = ip THEN "match" ELSE "next"
        ELSE "next"

\* scanFrom with the `continue` of line 114 turned into a `break`: the first line
\* that fails to parse ends the scan.
RECURSIVE scanFromBreak(_, _, _, _)
scanFromBreak(lines, i, qry, targetType) ==
    IF i > Len(lines) THEN None
    ELSE IF lineOutcome(lines[i], qry, targetType) = "match" THEN url
    ELSE IF lineOutcome(lines[i], qry, targetType) = "continue" THEN None
    ELSE scanFromBreak(lines, i + 1, qry, targetType)

\* for line in data["content"].split('\n'): ... return None
RECURSIVE scanFrom(_, _, _, _)
scanFrom(lines, i, qry, targetType) ==
    IF i > Len(lines) THEN None
    ELSE IF lineOutcome(lines[i], qry, targetType) = "match" THEN url
    ELSE scanFrom(lines, i + 1, qry, targetType)

scan(content, qry, targetType) == scanFrom(split(content, "\n"), 1, qry, targetType)

----------------------------------------------------------------------------
(* The cache and the network, as query() uses them.                        *)

NoContent == [present |-> FALSE, text |-> <<>>]

Content(t) == [present |-> TRUE, text |-> t]

NoEntry == [present |-> FALSE, body |-> <<>>, storedAt |-> 0]

\* sf.cacheGet(label, timeoutHrs): the stored body while it is younger than the
\* period, None otherwise.
cacheGet(entry, t, timeoutHrs) ==
    IF entry.present /\ t - entry.storedAt < timeoutHrs
    THEN Content(entry.body)
    ELSE NoContent

\* sf.cachePut(label, data): the entry replaced, stamped with the time of the write.
cachePut(body, t) == [present |-> TRUE, body |-> body, storedAt |-> t]

\* What sf.fetchUrl(url) can return while the server holds the lines ls: the list,
\* an empty body, a body-less 200, an HTTP error with its page, or no response at all.
Responses(ls) ==
    { [code |-> "200", content |-> Content(joinLines(ls))],
      [code |-> "200", content |-> Content(<<>>)],
      [code |-> "200", content |-> NoContent],
      [code |-> "404", content |-> Content(<<"4", "0", "4">>)],
      [code |-> None, content |-> NoContent] }

NoResponse == [code |-> "", content |-> NoContent]

\* query with line 102 lost: the fetched list is scanned and not stored.
queryWithoutPut(qry, targetType, t, resp, d) ==
    LET cached == cacheGet(cache, t, opts.cacheperiod)
    IN  IF cached.present
        THEN [ret |-> scan(cached.text, qry, targetType), errorState |-> errorState,
              cache |-> cache, cacheGets |-> 1, fetches |-> 0, puts |-> 0,
              resp |-> NoResponse, elapsed |-> 0]
        ELSE IF resp.code # "200" \/ ~resp.content.present
        THEN [ret |-> None, errorState |-> TRUE,
              cache |-> cache, cacheGets |-> 1, fetches |-> 1, puts |-> 0,
              resp |-> resp, elapsed |-> d]
        ELSE [ret |-> scan(resp.content.text, qry, targetType), errorState |-> errorState,
              cache |-> cache, cacheGets |-> 1, fetches |-> 1, puts |-> 0,
              resp |-> resp, elapsed |-> d]

\* query(qry, targetType) run at time t with fetchUrl answering resp after d hours:
\* what it returns and what it leaves behind.
query(qry, targetType, t, resp, d) ==
    LET cached == cacheGet(cache, t, opts.cacheperiod)
    IN  IF cached.present
        THEN [ret |-> scan(cached.text, qry, targetType), errorState |-> errorState,
              cache |-> cache, cacheGets |-> 1, fetches |-> 0, puts |-> 0,
              resp |-> NoResponse, elapsed |-> 0]
        ELSE IF resp.code # "200" \/ ~resp.content.present
        THEN [ret |-> None, errorState |-> TRUE,
              cache |-> cache, cacheGets |-> 1, fetches |-> 1, puts |-> 0,
              resp |-> resp, elapsed |-> d]
        ELSE [ret |-> scan(resp.content.text, qry, targetType), errorState |-> errorState,
              cache |-> cachePut(resp.content.text, t + d),
              cacheGets |-> 1, fetches |-> 1, puts |-> 1,
              resp |-> resp, elapsed |-> d]

----------------------------------------------------------------------------
(* The plugin: options, setup() and handleEvent().                         *)

\* Default options, lines 45-50.
DefaultOpts ==
    [checkaffiliates |-> TRUE, cacheperiod |-> 18,
     checknetblocks |-> TRUE, checksubnets |-> TRUE]

\* The userOpts dictionaries setup() is given in the model.
UserOpts ==
    { <<>>,
      [cacheperiod |-> 1],
      [cacheperiod |-> 2, checkaffiliates |-> FALSE],
      [checknetblocks |-> FALSE, cacheperiod |-> 1],
      [checksubnets |-> FALSE, checkaffiliates |-> FALSE] }

watchedEvents == {"IP_ADDRESS", "AFFILIATE_IPADDR", "NETBLOCK_MEMBER", "NETBLOCK_OWNER"}

producedEvents ==
    {"MALICIOUS_IPADDR", "MALICIOUS_AFFILIATE_IPADDR", "MALICIOUS_SUBNET", "MALICIOUS_NETBLOCK"}

\* dispatch with the option tests of lines 144, 149 and 154 left out.
dispatchIgnoringOptions(eventName) ==
    IF eventName = "IP_ADDRESS"
    THEN [go |-> TRUE, targetType |-> "ip", evtType |-> "MALICIOUS_IPADDR"]
    ELSE IF eventName = "AFFILIATE_IPADDR"
    THEN [go |-> TRUE, targetType |-> "ip", evtType |-> "MALICIOUS_AFFILIATE_IPADDR"]
    ELSE IF eventName = "NETBLOCK_OWNER"
    THEN [go |-> TRUE, targetType |-> "netblock", evtType |-> "MALICIOUS_NETBLOCK"]
    ELSE IF eventName = "NETBLOCK_MEMBER"
    THEN [go |-> TRUE, targetType |-> "netblock", evtType |-> "MALICIOUS_SUBNET"]
    ELSE [go |-> FALSE, targetType |-> "", evtType |-> ""]

\* The dispatch of lines 140-159 on the event type: whether the handler goes on to
\* query() and, if so, with which target type and which type of event to emit.
dispatch(eventName) ==
    IF eventName = "IP_ADDRESS"
    THEN [go |-> TRUE, targetType |-> "ip", evtType |-> "MALICIOUS_IPADDR"]
    ELSE IF eventName = "AFFILIATE_IPADDR"
    THEN [go |-> opts.checkaffiliates, targetType |-> "ip",
          evtType |-> "MALICIOUS_AFFILIATE_IPADDR"]
    ELSE IF eventName = "NETBLOCK_OWNER"
    THEN [go |-> opts.checknetblocks, targetType |-> "netblock",
          evtType |-> "MALICIOUS_NETBLOCK"]
    ELSE IF eventName = "NETBLOCK_MEMBER"
    THEN [go |-> opts.checksubnets, targetType |-> "netblock",
          evtType |-> "MALICIOUS_SUBNET"]
    ELSE [go |-> FALSE, targetType |-> "", evtType |-> ""]

\* No event.
NoEvent == [eventType |-> "", data |-> <<>>, module |-> ""]

\* The event built without its parent: the fourth argument of line 169 lost.
SpiderFootEventOrphan(evtType, eventData, source, event) ==
    [eventType |-> evtType,
     data |-> <<"emergingthreats.net [", eventData, "]\n<SFURL>", source, "</SFURL>">>,
     module |-> "sfp_emergingthreats",
     parent |-> NoEvent]

\* SpiderFootEvent(evtType, text, self.__name__, event), lines 168-169.
SpiderFootEvent(evtType, eventData, source, event) ==
    [eventType |-> evtType,
     data |-> <<"emergingthreats.net [", eventData, "]\n<SFURL>", source, "</SFURL>">>,
     module |-> "sfp_emergingthreats",
     parent |-> event]

\* The record of an invocation: the event, what the handler found on entry (the
\* datum already in the ledger, errorState set), where it left (stage), and the
\* calls it made.
NoCall ==
    [called |-> FALSE, event |-> NoEvent, seen |-> FALSE, latched |-> FALSE, stage |-> "",
     targetType |-> "", cacheGets |-> 0, fetches |-> 0, puts |-> 0,
     resp |-> NoResponse, ret |-> "", emitted |-> <<>>]

\* setup(sfc, userOpts), lines 63-70.
Setup(userOpts) ==
    /\ phase = "constructed"
    /\ phase' = "ready"
    /\ results' = {}
    /\ errorState' = FALSE
    /\ opts' = [n \in DOMAIN opts |->
                  IF n \in DOMAIN userOpts THEN userOpts[n] ELSE opts[n]]
    /\ UNCHANGED <<cache, now, feed, last, threads, second, orange>>

\* Line 135 lost: the handler goes on whatever errorState holds.
latchIgnored(flag) == FALSE

\* if self.errorState, line 135.
latch(flag) == flag

\* The ledger left as it is: line 138 lost.
recordNothing(eventData) == results

\* self.results[eventData] = True, line 138.
record(eventData) == results \cup {eventData}

\* The event handed on whatever query() returned: lines 165-166 lost.
notifyAlways(ret, evt) == <<evt>>

\* Lines 165-170: the events handed to notifyListeners after query() returned ret.
notify(ret, evt) == IF ret = None THEN <<>> ELSE <<evt>>

\* handleEvent(event), lines 124-170.  Should query() call fetchUrl, the call
\* answers any of Responses(feed) after 0..maxDelay hours.
handleEvent(event, maxDelay) ==
    LET eventName == event.eventType
        eventData == event.data
        call == [NoCall EXCEPT !.called = TRUE, !.event = event,
                               !.seen = eventData \in results, !.latched = errorState]
        sel == dispatch(eventName)
        cached == cacheGet(cache, now, opts.cacheperiod).present
    IN  /\ phase = "ready"
        /\ IF eventData \in results
           THEN /\ last' = [call EXCEPT !.stage = "duplicate"]
                /\ UNCHANGED <<results, errorState, cache, now>>
           ELSE IF latch(errorState)
           THEN /\ last' = [call EXCEPT !.stage = "latched"]
                /\ UNCHANGED <<results, errorState, cache, now>>
           ELSE IF ~sel.go
           THEN /\ results' = record(eventData)
                /\ last' = [call EXCEPT
                              !.stage = IF eventName \in watchedEvents
                                        THEN "disabled" ELSE "ignored"]
                /\ UNCHANGED <<errorState, cache, now>>
           ELSE \E resp \in IF cached THEN {NoResponse} ELSE Responses(feed),
                   d \in IF cached THEN {0} ELSE 0..maxDelay :
                LET q == query(eventData, sel.targetType, now, resp, d)
                IN  /\ results' = record(eventData)
                    /\ errorState' = q.errorState
                    /\ cache' = q.cache
                    /\ now' = now + q.elapsed
                    /\ last' = [call EXCEPT
                                  !.stage = "queried",
                                  !.targetType = sel.targetType,
                                  !.cacheGets = q.cacheGets,
                                  !.fetches = q.fetches,
                                  !.puts = q.puts,
                                  !.resp = q.resp,
                                  !.ret = q.ret,
                                  !.emitted =
                                      notify(q.ret,
                                             SpiderFootEvent(sel.evtType, eventData,
                                                             q.ret, event))]
        /\ UNCHANGED <<phase, opts, feed, threads, second, orange>>

\* The clock advances by an hour.
Tick ==
    /\ now < MaxTime
    /\ now' = now + 1
    /\ UNCHANGED <<phase, opts, results, errorState, cache, feed, last>>
    /\ UNCHANGED <<threads, second, orange>>

----------------------------------------------------------------------------
(* handleEvent() line by line, for invocations that overlap on one         *)
(* instance: each thread is at one place of the handler (pc), and a step   *)
(* runs it up to its next read or write of the shared state.  The code     *)
(* holds no lock.                                                          *)

Threads == {"t1", "t2"}

\* A thread outside the handler.  pc is the line the thread is about to run;
\* stage is where the handler left, as in `last`.
Idle ==
    [pc |-> "idle", event |-> NoEvent, stage |-> "", targetType |-> "", evtType |-> "",
     content |-> NoContent, ret |-> "", emitted |-> <<>>]

\* The pipeline calls handleEvent(event) on thread t, line 124.
Enter(t, event) ==
    /\ phase = "ready"
    /\ threads[t].pc \in {"idle", "done"}
    /\ threads' = [threads EXCEPT ![t] = [Idle EXCEPT !.pc = "l131", !.event = event]]
    /\ UNCHANGED <<phase, opts, results, errorState, cache, now, feed, last>>
    /\ UNCHANGED <<second, orange>>

\* Lines 131-133: the ledger is read.
Line131(t) ==
    /\ threads[t].pc = "l131"
    /\ threads' = [threads EXCEPT ![t] =
                     IF threads[t].event.data \in results
                     THEN [@ EXCEPT !.pc = "done", !.stage = "duplicate"]
                     ELSE [@ EXCEPT !.pc = "l135"]]
    /\ UNCHANGED <<phase, opts, results, errorState, cache, now, feed, last>>
    /\ UNCHANGED <<second, orange>>

\* Lines 135-136: errorState is read.
Line135(t) ==
    /\ threads[t].pc = "l135"
    /\ threads' = [threads EXCEPT ![t] =
                     IF latch(errorState)
                     THEN [@ EXCEPT !.pc = "done", !.stage = "latched"]
                     ELSE [@ EXCEPT !.pc = "l138"]]
    /\ UNCHANGED <<phase, opts, results, errorState, cache, now, feed, last>>
    /\ UNCHANGED <<second, orange>>

\* Lines 138-163: the datum is written to the ledger and the event type selects
\* the target type; the handler goes on to query() or returns.
Line138(t) ==
    LET event == threads[t].event
        sel == dispatch(event.eventType)
    IN  /\ threads[t].pc = "l138"
        /\ results' = record(event.data)
        /\ threads' = [threads EXCEPT ![t] =
                         IF sel.go
                         THEN [@ EXCEPT !.pc = "l87", !.targetType = sel.targetType,
                                        !.evtType = sel.evtType]
                         ELSE [@ EXCEPT !.pc = "done",
                                        !.stage = IF event.eventType \in watchedEvents
                                                  THEN "disabled" ELSE "ignored"]]
        /\ UNCHANGED <<phase, opts, errorState, cache, now, feed, last>>
        /\ UNCHANGED <<second, orange>>

\* query(), lines 86-90: the cache is read; without a fresh entry fetchUrl is
\* called, and the request is in flight while the thread is at l90.
Line87(t) ==
    LET cached == cacheGet(cache, now, opts.cacheperiod)
    IN  /\ threads[t].pc = "l87"
        /\ threads' = [threads EXCEPT ![t] =
                         IF cached.present
                         THEN [@ EXCEPT !.pc = "l104", !.content = cached]
                         ELSE [@ EXCEPT !.pc = "l90"]]
        /\ UNCHANGED <<phase, opts, results, errorState, cache, now, feed, last>>
        /\ UNCHANGED <<second, orange>>

\* query(), lines 90-102: fetchUrl returns resp; a failure sets errorState and
\* ends the handler, a list is written to the cache.
Line90(t, resp) ==
    /\ threads[t].pc = "l90"
    /\ IF resp.code # "200" \/ ~resp.content.present
       THEN /\ errorState' = TRUE
            /\ threads' = [threads EXCEPT ![t] =
                             [@ EXCEPT !.pc = "done", !.stage = "queried", !.ret = None]]
            /\ UNCHANGED cache
       ELSE /\ cache' = cachePut(resp.content.text, now)
            /\ threads' = [threads EXCEPT ![t] =
                             [@ EXCEPT !.pc = "l104", !.content = resp.content]]
            /\ UNCHANGED errorState
    /\ UNCHANGED <<phase, opts, results, now, feed, last>>
    /\ UNCHANGED <<second, orange>>

\* query(), lines 104-121, and lines 163-166: the list is scanned; without a
\* match the handler returns.
Line104(t) ==
    LET th == threads[t]
        ret == scan(th.content.text, th.event.data, th.targetType)
    IN  /\ th.pc = "l104"
        /\ threads' = [threads EXCEPT ![t] =
                         IF ret = None
                         THEN [@ EXCEPT !.pc = "done", !.stage = "queried", !.ret = ret]
                         ELSE [@ EXCEPT !.pc = "l170", !.ret = ret]]
        /\ UNCHANGED <<phase, opts, results, errorState, cache, now, feed, last>>
        /\ UNCHANGED <<second, orange>>

\* Lines 168-170: the event is built and handed to notifyListeners; the thread
\* is inside notifyListeners while it is at l170.
Line170(t) ==
    LET th == threads[t]
    IN  /\ th.pc = "l170"
        /\ threads' = [threads EXCEPT ![t] =
                         [@ EXCEPT !.pc = "done", !.stage = "queried",
                                   !.emitted = notify(th.ret,
                                                      SpiderFootEvent(th.evtType,
                                                                      th.event.data,
                                                                      th.ret, th.event))]]
        /\ UNCHANGED <<phase, opts, results, errorState, cache, now, feed, last>>
        /\ UNCHANGED <<second, orange>>

----------------------------------------------------------------------------
(* A second instance of the class.  opts is an attribute of the class      *)
(* (line 45) and setup() assigns to its keys (lines 69-70), never to       *)
(* self.opts: both instances read and write the one dictionary, `opts`.    *)

SecondConstructed ==
    [phase |-> "constructed", overrides |-> {}, results |-> {}, errorState |-> FALSE]

\* setup(sfc, userOpts) of the second instance, lines 63-70.
SetupSecond(userOpts) ==
    /\ second.phase = "constructed"
    /\ second' = [phase |-> "ready", overrides |-> DOMAIN userOpts, results |-> {},
                  errorState |-> FALSE]
    /\ opts' = [n \in DOMAIN opts |->
                  IF n \in DOMAIN userOpts THEN userOpts[n] ELSE opts[n]]
    /\ UNCHANGED <<phase, results, errorState, cache, now, feed, last>>
    /\ UNCHANGED <<threads, orange>>

----------------------------------------------------------------------------
(* The module sfp_orangenetwork.  Its state is the record `orange`: the    *)
(* phase, the option dictionary, the ledger self.results, self.errorState  *)
(* and what the last handleEvent invocation did.                           *)

\* opts, sfp_orangenetwork.py lines 51-56.
OrangeDefaultOpts ==
    [token |-> "", client_id |-> "", client_secret |-> "",
     your_correlator |-> "your_correlator"]

\* The overrides setup() is given.
OrangeUserOpts ==
    { <<>>,
      [client_id |-> "id"],
      [client_secret |-> "secret"],
      [client_id |-> "id", client_secret |-> "secret"] }

OrangeWatchedEvents == {"PHONE_NUMBER"}

OrangeProducedEvents == {"ORANGE_NETWORK_LOCATION"}

\* What the token endpoint can answer to requests.post: no answer at all (the
\* call raises), a body that is not JSON, a JSON array, a JSON object without
\* an access_token, a JSON object with one.
TokenReplies == {"network_error", "not_json", "json_array", "json_error", "json_token"}

\* What the location endpoint can answer: no answer, a body that is not JSON,
\* the empty JSON object, a JSON object with a location.
ApiReplies == {"network_error", "not_json", "json_empty", "json_location"}

\* get_access_token(), lines 84-95: requests.post raises when the network fails,
\* response.json() raises on a body that is not JSON, .get raises on a value that
\* is no dictionary; nothing catches them.  value is the token, None without one.
get_access_token(reply) ==
    CASE reply = "network_error" -> [raised |-> "ConnectionError", value |-> None]
      [] reply = "not_json"      -> [raised |-> "JSONDecodeError", value |-> None]
      [] reply = "json_array"    -> [raised |-> "AttributeError", value |-> None]
      [] reply = "json_error"    -> [raised |-> None, value |-> None]
      [] reply = "json_token"    -> [raised |-> None, value |-> "token"]

\* call_api(phone_number, access_token), lines 97-120: the parsed body, "{}" when
\* it is the empty object.
call_api(phone_number, access_token, reply) ==
    CASE reply = "network_error" -> [raised |-> "ConnectionError", value |-> None]
      [] reply = "not_json"      -> [raised |-> "JSONDecodeError", value |-> None]
      [] reply = "json_empty"    -> [raised |-> None, value |-> "{}"]
      [] reply = "json_location" -> [raised |-> None, value |-> "{location}"]

\* Python's truth value of what the two calls return.
falsy(value) == value \in {None, "", "{}"}

\* The record of an invocation of the handler: the event, where the handler left
\* (stage), the requests it sent, the exception that left it (None when it
\* returned) and the events it handed to notifyListeners.
NoOrangeCall ==
    [called |-> FALSE, event |-> NoEvent, stage |-> "", tokenRequests |-> 0,
     apiRequests |-> 0, raised |-> None, emitted |-> <<>>]

OrangeConstructed ==
    [phase |-> "constructed", opts |-> OrangeDefaultOpts, results |-> {},
     errorState |-> FALSE, last |-> NoOrangeCall]

\* setup(sfc, userOpts), lines 67-72.
OrangeSetup(userOpts) ==
    /\ orange.phase = "constructed"
    /\ orange' = [orange EXCEPT
                    !.phase = "ready",
                    !.results = {},
                    !.opts = [n \in DOMAIN orange.opts |->
                                IF n \in DOMAIN userOpts THEN userOpts[n]
                                                         ELSE orange.opts[n]]]
    /\ UNCHANGED <<phase, opts, results, errorState, cache, now, feed, last>>
    /\ UNCHANGED <<threads, second>>

\* The test of line 129 lost: every option dictionary passes.
configuredAlways(o) == TRUE

\* Line 129: both credentials are set.
configured(o) == ~(o.client_id = "" \/ o.client_secret = "")

\* handleEvent(event), lines 122-167; the token endpoint answers tokenReply and
\* the location endpoint apiReply, should the handler ask them.
OrangeHandleEvent(event, tokenReply, apiReply) ==
    LET eventName == event.eventType
        eventData == event.data
        call == [NoOrangeCall EXCEPT !.called = TRUE, !.event = event]
        recorded == orange.results \cup {eventData}
        access_token == get_access_token(tokenReply)
        api_response == call_api(eventData, access_token.value, apiReply)
        evt == [eventType |-> "ORANGE_NETWORK_LOCATION", data |-> api_response.value,
                module |-> "sfp_orangenetwork", parent |-> event]
    IN  /\ orange.phase = "ready"
        /\ orange' =
             IF ~configured(orange.opts)
             THEN [orange EXCEPT !.errorState = TRUE,
                                 !.last = [call EXCEPT !.stage = "unconfigured"]]
             ELSE IF eventData \in orange.results
             THEN [orange EXCEPT !.last = [call EXCEPT !.stage = "duplicate"]]
             ELSE IF eventName # "PHONE_NUMBER"
             THEN [orange EXCEPT !.results = recorded,
                                 !.last = [call EXCEPT !.stage = "unexpected"]]
             ELSE IF access_token.raised # None
             THEN [orange EXCEPT !.results = recorded,
                                 !.last = [call EXCEPT !.stage = "token",
                                                       !.tokenRequests = 1,
                                                       !.raised = access_token.raised]]
             ELSE IF falsy(access_token.value)
             THEN [orange EXCEPT !.results = recorded,
                                 !.last = [call EXCEPT !.stage = "no_token",
                                                       !.tokenRequests = 1]]
             ELSE IF api_response.raised # None
             THEN [orange EXCEPT !.results = recorded,
                                 !.last = [call EXCEPT !.stage = "api",
                                                       !.tokenRequests = 1,
                                                       !.apiRequests = 1,
                                                       !.raised = api_response.raised]]
             ELSE IF falsy(api_response.value)
             THEN [orange EXCEPT !.results = recorded,
                                 !.last = [call EXCEPT !.stage = "no_data",
                                                       !.tokenRequests = 1,
                                                       !.apiRequests = 1]]
             ELSE [orange EXCEPT !.results = recorded,
                                 !.last = [call EXCEPT !.stage = "emitted",
                                                       !.tokenRequests = 1,
                                                       !.apiRequests = 1,
                                                       !.emitted = <<evt>>]]
        /\ UNCHANGED <<phase, opts, results, errorState, cache, now, feed, last>>
        /\ UNCHANGED <<threads, second>>

----------------------------------------------------------------------------
(* The scan of one instance: setup(), then events as the pipeline delivers *)
(* them, while time passes.                                                *)

\* A fetch takes at most MaxFetchHours hours.
MaxFetchHours == 1

IpListed == <<"1", "0", ".", "0", ".", "0", ".", "5">>

IpClean == <<"1", "0", ".", "0", ".", "1", ".", "9">>

NetHit == <<"1", "0", ".", "0", ".", "0", ".", "0", "/", "2", "4">>

\* The list the server holds: a comment line and one address.
MainFeed == <<<<"#", " ", "E", "T">>, <<"1", "0", ".", "0", ".", "0", ".", "5">>>>

Modules == {"sfp_dnsresolve", "sfp_ripe"}

Events(types, data, modules) == [eventType : types, data : data, module : modules]

\* The events the pipeline delivers: addresses under the address types (and under
\* INTERNAL_IP_ADDRESS, which the module does not handle), netblocks under the
\* netblock types.
MainEvents ==
    Events({"IP_ADDRESS", "AFFILIATE_IPADDR"}, {IpListed, IpClean}, Modules)
    \cup Events({"NETBLOCK_OWNER", "NETBLOCK_MEMBER"}, {NetHit}, Modules)
    \cup Events({"INTERNAL_IP_ADDRESS"}, {IpListed}, {"sfp_dnsresolve"})

Init ==
    /\ phase = "constructed"
    /\ opts = DefaultOpts
    /\ results = {}
    /\ errorState = FALSE
    /\ cache = NoEntry
    /\ now = 0
    /\ feed = MainFeed
    /\ last = NoCall
    /\ threads = [t \in Threads |-> Idle]
    /\ second = SecondConstructed
    /\ orange = OrangeConstructed

Configure == \E userOpts \in UserOpts : Setup(userOpts)

\* The clock stops at MaxTime: a fetch takes no longer than what is left of it.
Deliver ==
    \E event \in MainEvents :
        handleEvent(event, IF MaxTime - now < MaxFetchHours
                           THEN MaxTime - now ELSE MaxFetchHours)

Next == Configure \/ Deliver \/ Tick

Spec == Init /\ [][Next]_vars

----------------------------------------------------------------------------
(* The claims about the handler, checked under Spec.  A step that changes  *)
(* `last` is an invocation of handleEvent: `last` is the invocation before *)
(* it and last' the invocation itself.                                     *)

queries(call) == IF call.stage = "queried" THEN 1 ELSE 0

emissions(call) == Len(call.emitted)

\* The event type is one the module handles and its check is switched on.
enabledKind(eventName) ==
    \/ eventName = "IP_ADDRESS"
    \/ eventName = "AFFILIATE_IPADDR" /\ opts.checkaffiliates
    \/ eventName = "NETBLOCK_OWNER" /\ opts.checknetblocks
    \/ eventName = "NETBLOCK_MEMBER" /\ opts.checksubnets

\* The event type is one the module handles and its check is switched off.
disabledKind(eventName) ==
    \/ eventName = "AFFILIATE_IPADDR" /\ ~opts.checkaffiliates
    \/ eventName = "NETBLOCK_OWNER" /\ ~opts.checknetblocks
    \/ eventName = "NETBLOCK_MEMBER" /\ ~opts.checksubnets

\* Two invocations, one after the other, for events that carry the same datum.
samePair == last.called /\ last' # last /\ last'.event.data = last.event.data

\* C1 as claimed: of two events with the same datum delivered one after the other,
\* the datum is processed exactly once: one call of query over both invocations, at
\* most one emitted event, and no processing by the second.
C1_ProcessedExactlyOnce ==
    [][samePair =>
          /\ queries(last) + queries(last') = 1
          /\ emissions(last) + emissions(last') <= 1
          /\ queries(last') = 0 /\ emissions(last') = 0]_vars

\* C1 as amended: the datum is processed at most once: at most one call of query
\* over both invocations, exactly one when the first event found the datum new and
\* the instance not latched and was of a handled type with its check switched on;
\* at most one emitted event; no processing by the second.
C1_ProcessedAtMostOnce ==
    [][samePair =>
          /\ queries(last) + queries(last') <= 1
          /\ (~last.seen /\ ~last.latched /\ enabledKind(last.event.eventType))
                => queries(last) + queries(last') = 1
          /\ emissions(last) + emissions(last') <= 1
          /\ queries(last') = 0 /\ emissions(last') = 0
          /\ last'.cacheGets = 0 /\ last'.fetches = 0
          /\ results' = results /\ cache' = cache /\ errorState' = errorState]_vars

\* A datum that was processed came again, under another event type and from another
\* module, and was left alone.
C1_Witness ==
    /\ last.stage = "duplicate"
    /\ last.event = [eventType |-> "AFFILIATE_IPADDR", data |-> IpListed,
                     module |-> "sfp_ripe"]
    /\ cache.present /\ ~errorState

\* A failed fetch: a status that is not 2xx, or a body that is absent or empty.
Status2xx == {"200", "201", "202", "203", "204", "205", "206"}

fetchFailure(resp) ==
    \/ resp.code \notin Status2xx
    \/ ~resp.content.present
    \/ resp.content.text = <<>>

\* C2: once a fetch has failed in query, no later event makes the instance call
\* notifyListeners or fetchUrl.
C2_FailFastLatching ==
    [][(last.fetches = 1 /\ fetchFailure(last.resp) /\ last' # last) =>
          last'.fetches = 0 /\ emissions(last') = 0]_vars

\* C3: a cache miss followed by a fetch that returns a non-2xx status, an empty body
\* or no body latches errorState, writes nothing to the cache, makes query return
\* None and emits nothing.
C3_FetchFailureLatches ==
    (last.stage = "queried" /\ last.fetches = 1 /\ fetchFailure(last.resp)) =>
        /\ errorState
        /\ last.puts = 0
        /\ last.ret = None
        /\ emissions(last) = 0

\* The cache entry is younger than the cache period.
fresh == cache.present /\ cache.storedAt <= now /\ now < cache.storedAt + opts.cacheperiod

\* C4: a query made while the entry is younger than the cache period is served from
\* the cache and fetches nothing; a query made when there is no entry, or when the
\* entry has reached the cache period, fetches once and, the fetch succeeding, puts
\* the body in the cache, stamped with the time of the put.
C4_TtlCorrectness ==
    [][(last' # last /\ last'.stage = "queried") =>
          IF fresh
          THEN last'.cacheGets = 1 /\ last'.fetches = 0 /\ last'.puts = 0 /\ cache' = cache
          ELSE /\ last'.cacheGets = 1 /\ last'.fetches = 1
               /\ ~fetchFailure(last'.resp) =>
                     /\ last'.puts = 1
                     /\ cache' = [present |-> TRUE, body |-> last'.resp.content.text,
                                  storedAt |-> now']]_vars

\* A query served from the cache after the clock has moved on from the put.
C4_Witness ==
    /\ last.stage = "queried" /\ last.fetches = 0
    /\ cache.present /\ cache.storedAt < now /\ fresh

\* C5: notifyListeners is called once by an invocation whose query returns a match,
\* and not at all on a miss, a switched-off check, an unhandled event type, a
\* duplicate or a latched errorState.
C5_EmissionRule ==
    last.called =>
        /\ (last.stage = "queried" /\ last.ret = url) => emissions(last) = 1
        /\ (\/ last.stage = "queried" /\ last.ret = None
            \/ disabledKind(last.event.eventType)
            \/ last.event.eventType \notin watchedEvents
            \/ last.seen
            \/ last.latched) => emissions(last) = 0

\* A match: query returned the url and one event went to notifyListeners.
C5_Witness ==
    /\ last.stage = "queried" /\ last.ret = url
    /\ emissions(last) = 1
    /\ last.emitted[1].eventType = "MALICIOUS_NETBLOCK"

\* C10: an event of a switched-off kind emits nothing, calls none of cacheGet,
\* fetchUrl and cachePut, leaves errorState alone and adds at most its datum to the
\* ledger (it adds it when the datum is new and the instance not latched).
C10_DisabledShortCircuit ==
    [][(last' # last /\ disabledKind(last'.event.eventType)) =>
          /\ emissions(last') = 0
          /\ last'.cacheGets = 0 /\ last'.fetches = 0 /\ last'.puts = 0
          /\ cache' = cache /\ errorState' = errorState
          /\ results' \subseteq results \cup {last'.event.data}
          /\ (~last'.seen /\ ~last'.latched) => results' = results \cup {last'.event.data}]_vars

\* An AFFILIATE_IPADDR event for the listed address, with the list in the cache and
\* checkaffiliates off: the datum is in the ledger and that is all.
C10_Witness ==
    /\ last.stage = "disabled"
    /\ last.event.eventType = "AFFILIATE_IPADDR" /\ last.event.data = IpListed
    /\ ~opts.checkaffiliates
    /\ cache.present /\ cache.body = joinLines(MainFeed)
    /\ IpListed \in results /\ ~errorState

----------------------------------------------------------------------------
(* The matching of query() on its own: an instance set up with the default *)
(* options, a remote list of up to MaxLines lines, and one event.          *)

\* The lines a list is made of: an address, an address with blanks around it, a
\* range, a comment, a blank line, an IPv6 address in upper case.
Lines ==
    { <<"1", "0", ".", "0", ".", "0", ".", "5">>,
      <<" ", "1", "0", ".", "0", ".", "1", ".", "9", "\r">>,
      <<"1", "0", ".", "0", ".", "0", ".", "0", "/", "2", "4">>,
      <<"#", " ", "E", "T">>,
      <<>>,
      <<":", ":", "A">> }

\* The data of the events: networks, addresses, and text that is neither.
Queries ==
    { <<"1", "0", ".", "0", ".", "0", ".", "0", "/", "2", "4">>,
      <<"1", "0", ".", "0", ".", "1", ".", "0", "/", "2", "4">>,
      <<"1", "0", ".", "0", ".", "0", ".", "5">>,
      <<"1", "0", ".", "0", ".", "1", ".", "9">>,
      <<":", ":", "8", "/", "1", "2", "5">>,
      <<":", ":", "a">>,
      <<":", ":", "A">>,
      <<"1", "0", ".", "0", ".", "0", ".", "0", "/", "3", "3">>,
      <<"#", " ", "E", "T">> }

RECURSIVE SeqsUpTo(_, _)
SeqsUpTo(S, n) ==
    IF n = 0 THEN {<<>>}
    ELSE SeqsUpTo(S, n - 1) \cup { Append(q, x) : q \in SeqsUpTo(S, n - 1), x \in S }

MatchEvents == Events(watchedEvents, Queries, {"sfp_dnsresolve"})

InitMatch ==
    /\ phase = "ready"
    /\ opts = DefaultOpts
    /\ results = {}
    /\ errorState = FALSE
    /\ cache = NoEntry
    /\ now = 0
    /\ feed \in SeqsUpTo(Lines, MaxLines)
    /\ last = NoCall
    /\ threads = [t \in Threads |-> Idle]
    /\ second = SecondConstructed
    /\ orange = OrangeConstructed

DeliverOne ==
    /\ ~last.called
    /\ \E event \in MatchEvents : handleEvent(event, MaxFetchHours)

NextMatch == DeliverOne

SpecMatch == InitMatch /\ [][NextMatch]_vars

----------------------------------------------------------------------------
(* The matching claims, checked under SpecMatch.                           *)

hasSlash(s) == \E i \in 1..Len(s) : s[i] = "/"

\* A list line read as a single address: trimmed, and no range.
singleAddress(line) ==
    IF hasSlash(line) THEN ParseError ELSE parseAddress(strip(line))

\* A list line that is a range: trimmed, it parses as a network and holds a "/".
isRange(line) == hasSlash(line) /\ IPNetwork(strip(line)).ok

\* The base address of a range line.
baseAddress(line) == parseAddress(split(strip(line), "/")[1])

\* The last invocation ran query() and query() scanned the list the server holds.
scannedList ==
    /\ last.stage = "queried"
    /\ last.resp = [code |-> "200", content |-> Content(joinLines(feed))]

scannedAs(targetType) == scannedList /\ last.targetType = targetType

parsable(line) == IPAddress(lower(strip(line))).ok

\* The list ls without its unparsable lines.
RECURSIVE keepParsable(_)
keepParsable(ls) ==
    IF ls = <<>> THEN <<>>
    ELSE IF parsable(Head(ls)) THEN <<Head(ls)>> \o keepParsable(Tail(ls))
    ELSE keepParsable(Tail(ls))

\* C6: containment matching: a query that is a network or an address matches (the
\* result is the list's url) if and only if some list line, trimmed and read as a
\* single address, lies inside the query's range; otherwise the result is None.
C6_ContainmentMatch ==
    (scannedAs("netblock") /\ IPNetwork(last.event.data).ok) =>
        /\ last.ret \in {url, None}
        /\ last.ret = url <=>
              \E i \in 1..Len(feed) :
                  /\ singleAddress(feed[i]).ok
                  /\ contains(IPNetwork(last.event.data), singleAddress(feed[i]))

\* The query 10.0.0.0/24 matched a list that holds 10.0.0.5.
C6_Witness ==
    /\ scannedAs("netblock")
    /\ last.event.data = NetHit
    /\ \E i \in 1..Len(feed) : feed[i] = IpListed
    /\ last.ret = url

C8_ExactMatch ==
    scannedAs("ip") =>
        /\ last.ret \in {url, None}
        /\ last.ret = url <=>
              \E i \in 1..Len(feed) : lower(last.event.data) = lower(strip(feed[i]))

\* A query in one letter case matched the line written in the other.
C8_Witness ==
    /\ scannedAs("ip")
    /\ last.event.data = <<":", ":", "a">>
    /\ feed = <<<<":", ":", "A">>>>
    /\ last.ret = url

C9_WitnessQuery ==
    /\ scannedAs("netblock")
    /\ ~IPNetwork(last.event.data).ok
    /\ last.ret = None /\ ~errorState


----------------------------------------------------------------------------
(* Overlapping invocations on one instance: setup(), then the pipeline     *)
(* calls the handler on two threads, whose steps interleave.               *)

ThreadEvents ==
    Events({"IP_ADDRESS"}, {IpListed, IpClean}, {"sfp_dnsresolve"})
    \cup Events({"AFFILIATE_IPADDR"}, {IpListed}, {"sfp_dnsresolve"})
    \cup Events({"NETBLOCK_OWNER"}, {NetHit}, {"sfp_ripe"})

Call == \E t \in Threads, event \in ThreadEvents : Enter(t, event)

Check == \E t \in Threads : Line131(t) \/ Line135(t)

Work == \E t \in Threads : Line138(t) \/ Line87(t) \/ Line104(t) \/ Line170(t)

Fetched == \E t \in Threads, resp \in Responses(feed) : Line90(t, resp)

NextThreads == Configure \/ Call \/ Check \/ Work \/ Fetched

SpecThreads == Init /\ [][NextThreads]_vars

\* The invocation went past the ledger check and on to query().
proceeded(th) ==
    \/ th.pc \in {"l87", "l90", "l104", "l170"}
    \/ th.pc = "done" /\ th.stage = "queried"

\* C11: of two invocations of handleEvent on one instance that carry the same
\* datum, whatever the interleaving, at most one passes the ledger check and
\* goes on to query() and emission.
C11_DedupAtomic ==
    \A t, u \in Threads :
        (t # u /\ threads[t].event.data = threads[u].event.data)
            => ~(proceeded(threads[t]) /\ proceeded(threads[u]))


\* The fetchUrl calls that have not returned.
inFlight == {t \in Threads : threads[t].pc = "l90"}

\* C12: refreshes of the list that overlap collapse: at any time at most one
\* fetchUrl request for it is in flight.
C12_RefreshCollapsed == Cardinality(inFlight) <= 1

\* The invocation is inside query() or inside notifyListeners.
working(th) == th.pc \in {"l87", "l90", "l104", "l170"}

\* C17: an invocation that is neither a duplicate nor latched has its datum in
\* the ledger before its first cache lookup, fetch or notifyListeners call; an
\* invocation that reads the ledger while another one carrying the same datum is
\* at work (in query() or in notifyListeners) is a duplicate and returns.
C17_RecordBeforeWork ==
    [][\A t \in Threads :
          /\ working(threads'[t]) => threads'[t].event.data \in results'
          /\ ( /\ threads[t].pc = "l131"
               /\ threads'[t].pc # "l131"
               /\ \E u \in Threads \ {t} :
                     /\ working(threads[u])
                     /\ threads[u].event.data = threads[t].event.data )
             => (threads'[t].pc = "done" /\ threads'[t].stage = "duplicate")]_vars

\* An invocation is inside notifyListeners, and the same datum delivered on the
\* other thread was dropped as a duplicate.
C17_Witness ==
    \E t, u \in Threads :
        /\ t # u
        /\ threads[u].pc = "l170"
        /\ threads[u].event.data \in results
        /\ threads[t].event.data = threads[u].event.data
        /\ threads[t].pc = "done" /\ threads[t].stage = "duplicate"

----------------------------------------------------------------------------
(* More claims about the handler, checked under Spec.                      *)

\* The type of the event emitted for an inbound event type.
maliciousType(eventName) ==
    CASE eventName = "IP_ADDRESS" -> "MALICIOUS_IPADDR"
      [] eventName = "AFFILIATE_IPADDR" -> "MALICIOUS_AFFILIATE_IPADDR"
      [] eventName = "NETBLOCK_OWNER" -> "MALICIOUS_NETBLOCK"
      [] eventName = "NETBLOCK_MEMBER" -> "MALICIOUS_SUBNET"
      [] OTHER -> ""

\* C13: every emitted event has the inbound event, as it was delivered, as its
\* parent and the type that goes with the inbound type; its type is one of
\* producedEvents, and only an inbound type of watchedEvents leads to it.
C13_EmittedEventContract ==
    \A i \in DOMAIN last.emitted :
        /\ last.event \in MainEvents
        /\ last.emitted[i].parent = last.event
        /\ last.event.eventType \in watchedEvents
        /\ last.emitted[i].eventType = maliciousType(last.event.eventType)
        /\ last.emitted[i].eventType \in producedEvents

\* A subnet the target is a member of matched, and MALICIOUS_SUBNET went out
\* with the NETBLOCK_MEMBER event as its parent.
C13_Witness ==
    /\ last.event.eventType = "NETBLOCK_MEMBER"
    /\ Len(last.emitted) = 1
    /\ last.emitted[1].eventType = "MALICIOUS_SUBNET"
    /\ last.emitted[1].parent = last.event

\* C16: once errorState is true no handleEvent call makes it false again, and
\* query() never runs again (so the latch is entered at most once) and nothing
\* is emitted.
C16_LatchTerminal ==
    [][errorState =>
          /\ errorState'
          /\ (last' # last => (queries(last') = 0 /\ emissions(last') = 0))]_vars

\* The instance is latched, and an event carrying a datum it had not seen came
\* in and was dropped at the errorState test.
C16_Witness ==
    /\ errorState
    /\ last.stage = "latched"
    /\ last.latched /\ ~last.seen
    /\ last.event.data \notin results


----------------------------------------------------------------------------
(* The scan of the sfp_orangenetwork instance: setup(), then events, each  *)
(* with what the two endpoints answer should the handler ask them.         *)

PhoneA == <<"+", "3", "3", "6">>

PhoneB == <<"+", "3", "3", "7">>

PhoneC == <<"+", "4", "4", "7">>

OrangeEvents ==
    Events({"PHONE_NUMBER"}, {PhoneA, PhoneB, PhoneC}, {"sfp_phone"})
    \cup Events({"IP_ADDRESS"}, {IpListed}, {"sfp_dnsresolve"})

OrangeConfigure == \E userOpts \in OrangeUserOpts : OrangeSetup(userOpts)

OrangeDeliver ==
    \E event \in OrangeEvents, tokenReply \in TokenReplies, apiReply \in ApiReplies :
        OrangeHandleEvent(event, tokenReply, apiReply)

NextOrange == OrangeConfigure \/ OrangeDeliver

SpecOrange == Init /\ [][NextOrange]_vars

\* C14: whatever the remote request comes to (a failure status, an empty or
\* absent body, a network exception, a response that is not JSON or not of the
\* expected shape), handleEvent returns: no exception leaves it.
C14_FailuresSwallowed == orange.last.raised = None

\* A credential is missing from the options.
credentialsMissing == orange.opts.client_id = "" \/ orange.opts.client_secret = ""

\* The invocation did nothing: no request, no emitted event.
idle(call) == call.tokenRequests = 0 /\ call.apiRequests = 0 /\ call.emitted = <<>>

\* C15: with client_id or client_secret missing handleEvent sets errorState, and
\* from then on no event causes any processing: no request, no ledger record,
\* no emitted event.
C15_ConfigurationFailureLatches ==
    [][(orange.phase = "ready" /\ orange' # orange
        /\ (credentialsMissing \/ orange.errorState))
          => /\ orange'.errorState
             /\ orange'.results = orange.results
             /\ orange'.last.called /\ idle(orange'.last)]_vars

\* The secret is missing: an event came in, the instance is latched and its
\* ledger still empty.
C15_Witness ==
    /\ orange.opts.client_id = "id" /\ orange.opts.client_secret = ""
    /\ orange.errorState
    /\ orange.last.stage = "unconfigured"
    /\ orange.last.event.eventType = "PHONE_NUMBER"
    /\ orange.results = {}

\* C18: once a remote request failed (no access token, or an empty response of
\* the location endpoint), a later event with a datum not seen before causes no
\* call of get_access_token or call_api and no emitted event.
C18_FailFast ==
    [][(orange.last.stage \in {"no_token", "no_data"} /\ orange' # orange
        /\ orange'.last.event.data \notin orange.results)
          => idle(orange'.last)]_vars


----------------------------------------------------------------------------
(* Two instances of sfp_emergingthreats in one process: each is set up     *)
(* once, in either order, and the first handles events.                    *)

InstanceEvents ==
    Events({"IP_ADDRESS", "AFFILIATE_IPADDR"}, {IpListed, IpClean}, {"sfp_dnsresolve"})
    \cup Events({"NETBLOCK_OWNER"}, {NetHit}, {"sfp_ripe"})

ConfigureSecond == \E userOpts \in UserOpts : SetupSecond(userOpts)

DeliverFirst == \E event \in InstanceEvents : handleEvent(event, 0)

NextInstances == Configure \/ ConfigureSecond \/ DeliverFirst

SpecInstances == Init /\ [][NextInstances]_vars

\* C19: the configuration is the instance's own: setup(userOpts) on one instance
\* changes the options of that instance only, so an instance set up without
\* overrides reads the defaults (checkaffiliates true, cacheperiod 18 hours),
\* whatever the other instance was given.
C19_ConfigurationIsolated ==
    (second.phase = "ready" /\ second.overrides = {}) => opts = DefaultOpts

====
